---- MODULE Spec2Model ----
(***************************************************************************)
(* HTMLInstrumentation.js: the cached SimpleDOM tree of an edited HTML     *)
(* session, kept in step with the text by getUnappliedEditList,            *)
(* scanDocument and syncTagIds.                                            *)
(*                                                                         *)
(* Objects live in a heap (a sequence of node records indexed by address)  *)
(* because the code mutates nodes in place and keeps several references to *)
(* one node (children arrays, parent links, nodeMap, session.dom,          *)
(* session.savedDom).  Address 0 is null/undefined.                        *)
(*                                                                         *)
(* The text is a sequence of one-character strings.  HTMLSimpleDOM.Builder *)
(* and the tokenizer are not part of HTMLInstrumentation.js; the builder   *)
(* below follows section 4.2 of the specification (balanced tags or no     *)
(* tree), over the tag syntax <name> ... </name> without attributes.       *)
(* update() calls this.build(!true, markCache), that is with strict off;   *)
(* what the builder then does with unbalanced tags is not in this file,    *)
(* and the builder below yields no tree for them, as section 4.2 states.   *)
(***************************************************************************)
EXTENDS Integers, Sequences, FiniteSets, TLC

NL == "\n"

Letters == {"a", "b", "c", "y"}

NULL == 0

\* F applied to the value of v, with v evaluated once
With(v, F(_)) == CHOOSE out \in {F(x) : x \in {v}} : TRUE

(***************************************************************************)
(* Positions {row, column} and Range.comparePoints                         *)
(***************************************************************************)
Pos(r, c) == [row |-> r, column |-> c]

NoPos == Pos(0, 0)

comparePoints(p1, p2) ==
    IF p1.row # p2.row THEN p1.row - p2.row ELSE p1.column - p2.column

\* HTMLSimpleDOM._offsetPos(pos, n): the same row, n columns further
_offsetPos(pos, n) == Pos(pos.row, pos.column + n)

(***************************************************************************)
(* The document: session.getValue(), doc.positionToIndex, getTextRange     *)
(***************************************************************************)
RECURSIVE CountNL(_, _)
\* number of newlines among the first n characters of t
CountNL(t, n) ==
    IF n <= 0 THEN 0
    ELSE CountNL(t, n - 1) + (IF t[n] = NL THEN 1 ELSE 0)

RECURSIVE LineStart(_, _)
\* 0-based offset at which the line holding 0-based offset n starts
LineStart(t, n) ==
    IF n <= 0 THEN 0
    ELSE IF t[n] = NL THEN n
    ELSE LineStart(t, n - 1)

\* doc.indexToPosition: the position of 0-based offset n
indexToPosition(t, n) == Pos(CountNL(t, n), n - LineStart(t, n))

RECURSIVE RowStart(_, _, _)
\* 0-based offset of the first character of row r, scanning from offset n;
\* Len(t) + 1 when the document has fewer rows
RowStart(t, r, n) ==
    IF r <= 0 THEN n
    ELSE IF n >= Len(t) THEN Len(t) + 1
    ELSE IF t[n + 1] = NL THEN RowStart(t, r - 1, n + 1)
    ELSE RowStart(t, r, n + 1)

RECURSIVE RowLen(_, _)
\* length of the line that starts at 0-based offset n
RowLen(t, n) ==
    IF n >= Len(t) \/ t[n + 1] = NL THEN 0 ELSE 1 + RowLen(t, n + 1)

Min(a, b) == IF a < b THEN a ELSE b

Max(a, b) == IF a > b THEN a ELSE b

\* doc.positionToIndex, clipped to the document as ace clips a position
positionToIndex(t, pos) ==
    IF pos.row < 0 THEN 0
    ELSE LET s == RowStart(t, pos.row, 0)
         IN IF s > Len(t) THEN Len(t)
            ELSE s + Max(0, Min(pos.column, RowLen(t, s)))

\* session.getTextRange(Range.fromPoints(p1, p2))
getTextRange(t, p1, p2) ==
    LET i1 == positionToIndex(t, p1)
        i2 == positionToIndex(t, p2)
    IN IF i2 <= i1 THEN << >> ELSE SubSeq(t, i1 + 1, i2)

(***************************************************************************)
(* SimpleDOM nodes                                                         *)
(***************************************************************************)
EmptyMap == [k \in {} |-> NULL]

\* a node as the builder creates it; text nodes have no children property
\* and no positions
NewElement(tag, parent, sp) ==
    [isElement |-> TRUE, tag |-> tag, content |-> << >>, tagID |-> 0,
     startPos |-> sp, endPos |-> sp, children |-> << >>, parent |-> parent,
     nodeMap |-> EmptyMap, errors |-> "unset", signature |-> << >>]

NewText(parent, ch, id) ==
    [isElement |-> FALSE, tag |-> << >>, content |-> <<ch>>, tagID |-> id,
     startPos |-> NoPos, endPos |-> NoPos, children |-> << >>,
     parent |-> parent, nodeMap |-> EmptyMap, errors |-> "unset",
     signature |-> <<ch>>]

\* the signatures the children of n hold, from the i-th on, in order
RECURSIVE childSignatures(_, _, _)
childSignatures(h, n, i) ==
    IF i > Len(h[n].children) THEN << >>
    ELSE h[h[n].children[i]].signature \o childSignatures(h, n, i + 1)

\* node.update(): the signature of n is computed again from its own tag
\* or text and from the signatures its children hold at that moment
nodeUpdate(h, n) ==
    [h EXCEPT ![n].signature =
        IF ~h[n].isElement THEN h[n].content
        ELSE <<"<">> \o h[n].tag \o <<">">> \o childSignatures(h, n, 1)
             \o <<"<", "/">> \o h[n].tag \o <<">">>]

\* HTMLSimpleDOM.getTextNodeID: derived from the position in the parent;
\* negative, so that it never meets an element's identifier
getTextNodeID(parentID, index) == 0 - (parentID * 16 + index + 16)

MapPut(m, k, v) == [x \in DOMAIN m \cup {k} |-> IF x = k THEN v ELSE m[x]]

(***************************************************************************)
(* findNode, _getNodeAtDocumentPos, _getTagIDAtDocumentPos                 *)
(***************************************************************************)
RECURSIVE findNodeFrom(_, _, _, _, _)
\* the loop of findNode descending into a child that starts exactly at pos
findNodeFromInclusive(h, node, pos, preferParent, i) ==
    IF i > Len(h[node].children) THEN node
    ELSE LET ch == h[node].children[i]
             cmp == comparePoints(pos, h[ch].endPos)
         IN IF ~h[ch].isElement
            THEN findNodeFrom(h, node, pos, preferParent, i + 1)
            ELSE IF cmp < 0
            THEN IF comparePoints(pos, h[ch].startPos) >= 0
                 THEN findNodeFrom(h, ch, pos, preferParent, 1)
                 ELSE node
            ELSE IF preferParent /\ cmp = 0 THEN node
            ELSE findNodeFrom(h, node, pos, preferParent, i + 1)

\* the loop of findNode with preferParent deciding at the edges: unless
\* the parent is preferred, a child that starts or ends exactly at pos is
\* the node found
findNodeFromInnermost(h, node, pos, preferParent, i) ==
    IF i > Len(h[node].children) THEN node
    ELSE LET ch == h[node].children[i]
             cmp == comparePoints(pos, h[ch].endPos)
         IN IF ~h[ch].isElement
            THEN findNodeFrom(h, node, pos, preferParent, i + 1)
            ELSE IF cmp < 0
            THEN IF comparePoints(pos, h[ch].startPos) > 0
                 THEN findNodeFrom(h, ch, pos, preferParent, 1)
                 ELSE IF ~preferParent
                         /\ comparePoints(pos, h[ch].startPos) = 0
                 THEN ch
                 ELSE node
            ELSE IF cmp = 0 THEN (IF preferParent THEN node ELSE ch)
            ELSE findNodeFrom(h, node, pos, preferParent, i + 1)

\* the for loop of findNode over node.children, from index i (1-based)
findNodeFrom(h, node, pos, preferParent, i) ==
    IF i > Len(h[node].children) THEN node
    ELSE LET ch == h[node].children[i]
             cmp == comparePoints(pos, h[ch].endPos)
         IN IF ~h[ch].isElement
            THEN findNodeFrom(h, node, pos, preferParent, i + 1)
            ELSE IF cmp < 0
            THEN IF comparePoints(pos, h[ch].startPos) > 0
                 THEN findNodeFrom(h, ch, pos, preferParent, 1)
                 ELSE node
            ELSE IF preferParent /\ cmp = 0 THEN node
            ELSE findNodeFrom(h, node, pos, preferParent, i + 1)

findNode(h, node, pos, preferParent) ==
    IF node = NULL THEN NULL ELSE findNodeFrom(h, node, pos, preferParent, 1)

_getNodeAtDocumentPos(h, sdom, pos, preferParent) ==
    findNode(h, sdom, pos, preferParent)

_getTagIDAtDocumentPos(h, sdom, pos) ==
    LET match == _getNodeAtDocumentPos(h, sdom, pos, FALSE)
    IN IF match # NULL THEN h[match].tagID ELSE 0 - 1

(***************************************************************************)
(* DOMUpdater.prototype.getID and its helpers                              *)
(***************************************************************************)
\* isDangerousEdit with "=" missing from the character class
isDangerousEditNoEquals(text) ==
    \E i \in 1..Len(text) : text[i] \in {"<", ">", "/", "\"", "'"}

isDangerousEdit(text) ==
    \E i \in 1..Len(text) : text[i] \in {"<", ">", "/", "=", "\"", "'"}

RECURSIVE AncestorHasID(_, _, _)
\* the while loop of _hasAncestorWithID, from ancestor
AncestorHasID(h, ancestor, id) ==
    IF ancestor = NULL THEN FALSE
    ELSE IF h[ancestor].tagID = id THEN TRUE
    ELSE AncestorHasID(h, h[ancestor].parent, id)

_hasAncestorWithID(h, node, id) == AncestorHasID(h, h[node].parent, id)

\* getID without the test of the ancestors of the new tag
getIDIgnoringAncestors(h, newTag, sdom, prev, nextId) ==
    With(_getTagIDAtDocumentPos(h, sdom, _offsetPos(h[newTag].startPos, 1)),
         LAMBDA currentTagID :
           LET fresh == [id |-> nextId, nextId |-> nextId + 1]
           IN IF currentTagID = 0 - 1
              THEN fresh
              ELSE IF currentTagID \notin DOMAIN h[prev].nodeMap
                      \/ h[h[prev].nodeMap[currentTagID]].tag # h[newTag].tag
                   THEN fresh
                   ELSE [id |-> currentTagID, nextId |-> nextId])

\* getID(newTag): the identifier and the identifier counter after the call.
\* newTag is an address of h; sdom is session.dom, prev is this.previousDOM
getID(h, newTag, sdom, prev, nextId) ==
    With(_getTagIDAtDocumentPos(h, sdom, _offsetPos(h[newTag].startPos, 1)),
         LAMBDA currentTagID :
           LET fresh == [id |-> nextId, nextId |-> nextId + 1]
           IN IF currentTagID = 0 - 1
                 \/ _hasAncestorWithID(h, newTag, currentTagID)
              THEN fresh
              ELSE IF currentTagID \notin DOMAIN h[prev].nodeMap
                      \/ h[h[prev].nodeMap[currentTagID]].tag # h[newTag].tag
                   THEN fresh
                   ELSE [id |-> currentTagID, nextId |-> nextId])

(***************************************************************************)
(* HTMLSimpleDOM.Builder.build (specification section 4.2)                 *)
(*                                                                         *)
(* b  = [text, startOffsetPos, updater, sdom, prev]: the builder's input;  *)
(*      updater is TRUE for a DOMUpdater (getID above) and FALSE for the   *)
(*      default policy (every element gets a fresh identifier).            *)
(* st = [heap, stack, nextId, nodeMap, lastClosed, lastText, ok]           *)
(***************************************************************************)
\* position in the document of 0-based offset k of the builder's text
BuilderPos(b, k) ==
    LET p == indexToPosition(b.text, k)
    IN IF p.row = 0
       THEN Pos(b.startOffsetPos.row, b.startOffsetPos.column + p.column)
       ELSE Pos(b.startOffsetPos.row + p.row, p.column)

RECURSIVE NameEnd(_, _)
\* 1-based index of the first character at or after i that is not a letter
NameEnd(t, i) ==
    IF i > Len(t) \/ t[i] \notin Letters THEN i ELSE NameEnd(t, i + 1)

Top(stack) == IF Len(stack) = 0 THEN NULL ELSE stack[Len(stack)]

\* "<name>" read at 1-based indices lt..gt
OpenTag(b, st, name, lt, gt) ==
    LET parent == Top(st.stack)
        addr == Len(st.heap) + 1
        node0 == [NewElement(name, parent, BuilderPos(b, lt - 1))
                      EXCEPT !.endPos = BuilderPos(b, gt)]
    IN IF parent = NULL /\ st.lastClosed # NULL
       THEN [st EXCEPT !.ok = FALSE]
       ELSE With(Append(st.heap, node0), LAMBDA h0 :
            With(IF b.updater
                 THEN getID(h0, addr, b.sdom, b.prev, st.nextId)
                 ELSE [id |-> st.nextId, nextId |-> st.nextId + 1],
                 LAMBDA got :
                   LET h1 == [h0 EXCEPT ![addr].tagID = got.id]
                       h2 == IF parent = NULL THEN h1
                             ELSE [h1 EXCEPT ![parent].children =
                                                 Append(@, addr)]
                   IN [st EXCEPT !.heap = h2, !.stack = Append(@, addr),
                                 !.nextId = got.nextId,
                                 !.nodeMap = MapPut(@, got.id, addr),
                                 !.lastText = NULL]))

\* "</name>" whose ">" is at 1-based index gt
CloseTag(b, st, name, gt) ==
    LET top == Top(st.stack)
    IN IF top = NULL \/ st.heap[top].tag # name
       THEN [st EXCEPT !.ok = FALSE]
       ELSE [st EXCEPT !.heap = nodeUpdate([@ EXCEPT ![top].endPos =
                                                        BuilderPos(b, gt)],
                                           top),
                       !.stack = SubSeq(@, 1, Len(@) - 1),
                       !.lastClosed = top,
                       !.lastText = NULL]

\* one character of text content
TextToken(b, st, ch) ==
    LET parent == Top(st.stack)
        addr == Len(st.heap) + 1
        id == getTextNodeID(st.heap[parent].tagID,
                            Len(st.heap[parent].children))
    IN IF parent = NULL THEN st
       ELSE IF st.lastText # NULL
       THEN [st EXCEPT !.heap = nodeUpdate([@ EXCEPT ![st.lastText].content =
                                                          Append(@, ch)],
                                           st.lastText)]
       ELSE [st EXCEPT !.heap = [Append(@, NewText(parent, ch, id))
                                    EXCEPT ![parent].children =
                                                   Append(@, addr)],
                       !.nodeMap = MapPut(@, id, addr),
                       !.lastText = addr]

RECURSIVE BuildLoop(_, _, _)
\* the token loop, from 1-based index i of the text
BuildLoop(b, st, i) ==
    IF ~st.ok \/ i > Len(b.text) THEN st
    ELSE IF b.text[i] = "<"
    THEN LET closing == i + 1 <= Len(b.text) /\ b.text[i + 1] = "/"
             n0 == IF closing THEN i + 2 ELSE i + 1
             n1 == NameEnd(b.text, n0)
             name == SubSeq(b.text, n0, n1 - 1)
         IN IF n1 = n0 \/ n1 > Len(b.text) \/ b.text[n1] # ">"
            THEN [st EXCEPT !.ok = FALSE]
            ELSE IF closing
            THEN With(CloseTag(b, st, name, n1),
                      LAMBDA s : BuildLoop(b, s, n1 + 1))
            ELSE With(OpenTag(b, st, name, i, n1),
                      LAMBDA s : BuildLoop(b, s, n1 + 1))
    ELSE With(TextToken(b, st, b.text[i]), LAMBDA s : BuildLoop(b, s, i + 1))

\* build(): [ok, heap, root, nextId]; a failed build leaves no object behind
BuildResult(h, st) ==
    IF st.ok /\ Len(st.stack) = 0 /\ st.lastClosed # NULL
    THEN [ok |-> TRUE,
          heap |-> [st.heap EXCEPT ![st.lastClosed].nodeMap = st.nodeMap],
          root |-> st.lastClosed, nextId |-> st.nextId]
    ELSE [ok |-> FALSE, heap |-> h, root |-> NULL, nextId |-> st.nextId]

build(h, nextId, b) ==
    With([heap |-> h, stack |-> << >>, nextId |-> nextId,
          nodeMap |-> EmptyMap, lastClosed |-> NULL,
          lastText |-> NULL, ok |-> TRUE],
         LAMBDA st0 : With(BuildLoop(b, st0, 1),
                           LAMBDA st : BuildResult(h, st)))

\* HTMLSimpleDOM.build(text): a default builder over the whole text
DefaultBuilder(text) ==
    [text |-> text, startOffsetPos |-> Pos(0, 0), updater |-> FALSE,
     sdom |-> NULL, prev |-> NULL]

(***************************************************************************)
(* Edit deltas and updatePositions                                         *)
(***************************************************************************)
\* the absent delta argument
NoDelta == [action |-> "none", start |-> NoPos, end |-> NoPos, text |-> << >>]

isInsert(delta) == delta.action \in {"insertText", "insertLines"}

\* update(pos) of updatePositions
updatePos(delta, pos) ==
    LET sign == IF isInsert(delta) THEN 1 ELSE 0 - 1
        rowChange == sign * (delta.end.row - delta.start.row)
        columnChange == sign * (delta.end.column - delta.start.column)
        anchorRow == IF sign = 0 - 1 THEN delta.end.row ELSE delta.start.row
    IN Pos(pos.row + rowChange,
           IF pos.row = anchorRow THEN pos.column + columnChange
           ELSE pos.column)

\* startsAfterEdit with the insertion compared as the removal is: a node
\* that starts exactly at the insertion point moves too
startsAtOrAfterEdit(delta, sp) ==
    IF isInsert(delta) THEN comparePoints(delta.start, sp) <= 0
    ELSE comparePoints(delta.end, sp) <= 0

\* lines 514-515 and 529-530: the node starts after the edit, so both of its
\* boundaries move
startsAfterEdit(delta, sp) ==
    IF isInsert(delta) THEN comparePoints(delta.start, sp) < 0
    ELSE comparePoints(delta.end, sp) <= 0

\* lines 521-522 and 536-537: the node ends after the edit, so its end moves
endsAfterEdit(delta, ep) ==
    IF isInsert(delta) THEN comparePoints(delta.start, ep) < 0
    ELSE comparePoints(delta.start, ep) <= 0

RECURSIVE walk(_, _, _)
RECURSIVE walkChildren(_, _, _, _)
\* node.children.some(walk): walk never returns a truthy value, so every
\* child is visited
walkChildren(h, node, i, delta) ==
    IF i > Len(h[node].children) THEN h
    ELSE With(walk(h, h[node].children[i], delta),
              LAMBDA h1 : walkChildren(h1, node, i + 1, delta))

\* walk(node) of updatePositions: the heap after the walk
walk(h, node, delta) ==
    LET sp == h[node].startPos
        ep == h[node].endPos
        rowChange == delta.end.row # delta.start.row
        anchorRow == IF isInsert(delta) THEN delta.start.row
                     ELSE delta.end.row
        both == [h EXCEPT ![node].startPos = updatePos(delta, sp),
                          ![node].endPos = updatePos(delta, ep)]
        endOnly == [h EXCEPT ![node].endPos = updatePos(delta, ep)]
    IN IF ~h[node].isElement THEN h
       ELSE IF startsAfterEdit(delta, sp)
       THEN IF ~rowChange /\ sp.row > anchorRow THEN both
            ELSE walkChildren(both, node, 1, delta)
       ELSE IF endsAfterEdit(delta, ep)
       THEN walkChildren(endOnly, node, 1, delta)
       ELSE h

\* updatePositions allocating a node for the shifted root instead of moving
\* the positions of the nodes in place
updatePositionsByCopy(h, dom, delta) ==
    With(walk(h, dom, delta), LAMBDA h1 : Append(h1, h1[dom]))

updatePositions(h, dom, delta) == walk(h, dom, delta)

\* the constructor with lines 196-197 moved behind the classification: the
\* edit is classified and the enclosing node looked up on the positions of
\* before the edit, and the shift comes last
DOMUpdaterLookupFirst(h, previousDOM, sdom, value, delta) ==
    With(IF delta # NoDelta /\ previousDOM # NULL
         THEN updatePositions(h, previousDOM, delta)
         ELSE h,
         LAMBDA h1 :
           With(IF delta # NoDelta /\ Len(delta.text) > 0
                   /\ ~isDangerousEdit(delta.text)
                THEN _getNodeAtDocumentPos(h, sdom, delta.start, TRUE)
                ELSE NULL,
                LAMBDA startNode :
                  IF startNode # NULL
                  THEN [heap |-> h1, isIncremental |-> TRUE,
                        changedTagID |-> h[startNode].tagID,
                        text |-> getTextRange(value, h[startNode].startPos,
                                              h[startNode].endPos),
                        startOffsetPos |-> h[startNode].startPos,
                        previousDOM |-> previousDOM, sdom |-> sdom]
                  ELSE [heap |-> h1, isIncremental |-> FALSE,
                        changedTagID |-> 0, text |-> value,
                        startOffsetPos |-> Pos(0, 0),
                        previousDOM |-> previousDOM, sdom |-> sdom]))

(***************************************************************************)
(* DOMUpdater: constructor, _buildNodeMap, _handleDeletions, update        *)
(***************************************************************************)
\* new DOMUpdater(previousDOM, session, delta): the heap after the position
\* shift and the fields the constructor sets.  value is session.getValue(),
\* sdom is session.dom.
DOMUpdater(h, previousDOM, sdom, value, delta) ==
    With(IF delta # NoDelta /\ previousDOM # NULL
         THEN updatePositions(h, previousDOM, delta)
         ELSE h,
         LAMBDA h1 :
           With(IF delta # NoDelta /\ Len(delta.text) > 0
                   /\ ~isDangerousEdit(delta.text)
                THEN _getNodeAtDocumentPos(h1, sdom, delta.start, TRUE)
                ELSE NULL,
                LAMBDA startNode :
                  IF startNode # NULL
                  THEN [heap |-> h1, isIncremental |-> TRUE,
                        changedTagID |-> h1[startNode].tagID,
                        text |-> getTextRange(value, h1[startNode].startPos,
                                              h1[startNode].endPos),
                        startOffsetPos |-> h1[startNode].startPos,
                        previousDOM |-> previousDOM, sdom |-> sdom]
                  ELSE [heap |-> h1, isIncremental |-> FALSE,
                        changedTagID |-> 0, text |-> value,
                        startOffsetPos |-> Pos(0, 0),
                        previousDOM |-> previousDOM, sdom |-> sdom]))

RECURSIVE buildNodeMapWalk(_, _, _)
RECURSIVE buildNodeMapKids(_, _, _, _)
buildNodeMapKids(h, node, i, m) ==
    IF i > Len(h[node].children) THEN m
    ELSE With(buildNodeMapWalk(h, h[node].children[i], m),
              LAMBDA m1 : buildNodeMapKids(h, node, i + 1, m1))

\* walk(node) of _buildNodeMap
buildNodeMapWalk(h, node, m) ==
    LET m1 == IF h[node].tagID # 0 THEN MapPut(m, h[node].tagID, node) ELSE m
    IN IF h[node].isElement THEN buildNodeMapKids(h, node, 1, m1) ELSE m1

\* _buildNodeMap(root): the heap with root.nodeMap set
_buildNodeMap(h, root) ==
    With(h, LAMBDA h0 :
        [h0 EXCEPT ![root].nodeMap = buildNodeMapWalk(h0, root, EmptyMap)])

\* _handleDeletions(nodeMap, oldSubtreeMap, newSubtreeMap): the nodeMap after
_handleDeletions(nodeMap, oldSubtreeMap, newSubtreeMap) ==
    [k \in DOMAIN nodeMap \ (DOMAIN oldSubtreeMap \ DOMAIN newSubtreeMap)
        |-> nodeMap[k]]

\* extend(a, b): ace/lib/oop mixin
extend(a, b) ==
    [k \in DOMAIN a \cup DOMAIN b |-> IF k \in DOMAIN b THEN b[k] ELSE a[k]]

RECURSIVE indexOf(_, _, _)
\* Array.prototype.indexOf, 1-based; 0 when absent
indexOf(seq, x, i) ==
    IF i > Len(seq) THEN 0
    ELSE IF seq[i] = x THEN i
    ELSE indexOf(seq, x, i + 1)

\* swapSubtree without line 418: the new subtree is listed by the parent but
\* its own parent link is not set
\* lines 437-442: update() of the parent and of every ancestor above it
RECURSIVE updateSignatures(_, _)
updateSignatures(h, curParent) ==
    IF curParent = NULL THEN h
    ELSE With(nodeUpdate(h, curParent),
              LAMBDA h1 : updateSignatures(h1, h1[curParent].parent))

\* the swap of update() without lines 437-442: no signature is computed
\* again after the splice
swapWithoutSignatures(h, previousDOM, oldSubtree, newSubtree, parent, childIndex) ==
    With([h EXCEPT ![oldSubtree].parent = NULL,
                   ![newSubtree].parent = parent,
                   ![parent].children[childIndex] = newSubtree],
         LAMBDA h1 :
           With(_buildNodeMap([h1 EXCEPT ![previousDOM].nodeMap =
                                   extend(@, h1[newSubtree].nodeMap)],
                              oldSubtree),
                LAMBDA h3 :
                  [h3 EXCEPT ![previousDOM].nodeMap =
                       _handleDeletions(@, h3[oldSubtree].nodeMap,
                                        h3[newSubtree].nodeMap)]))

swapOneSide(h, previousDOM, oldSubtree, newSubtree, parent, childIndex) ==
    With([h EXCEPT ![oldSubtree].parent = NULL,
                   ![parent].children[childIndex] = newSubtree],
         LAMBDA h1 :
           With(_buildNodeMap([h1 EXCEPT ![previousDOM].nodeMap =
                                   extend(@, h1[newSubtree].nodeMap)],
                              oldSubtree),
                LAMBDA h3 :
                  updateSignatures(
                      [h3 EXCEPT ![previousDOM].nodeMap =
                           _handleDeletions(@, h3[oldSubtree].nodeMap,
                                            h3[newSubtree].nodeMap)],
                      parent)))

\* the swap of update() without line 418: the old subtree keeps its parent
swapKeepingOldParent(h, previousDOM, oldSubtree, newSubtree, parent, childIndex) ==
    With([h EXCEPT ![newSubtree].parent = parent,
                   ![parent].children[childIndex] = newSubtree],
         LAMBDA h1 :
           With(_buildNodeMap([h1 EXCEPT ![previousDOM].nodeMap =
                                   extend(@, h1[newSubtree].nodeMap)],
                              oldSubtree),
                LAMBDA h3 :
                  updateSignatures(
                      [h3 EXCEPT ![previousDOM].nodeMap =
                           _handleDeletions(@, h3[oldSubtree].nodeMap,
                                            h3[newSubtree].nodeMap)],
                      parent)))

\* the swap of update(), lines 416-442
swapSubtree(h, previousDOM, oldSubtree, newSubtree, parent, childIndex) ==
    With([h EXCEPT ![oldSubtree].parent = NULL,
                   ![newSubtree].parent = parent,
                   ![parent].children[childIndex] = newSubtree],
         LAMBDA h1 :
           With(_buildNodeMap([h1 EXCEPT ![previousDOM].nodeMap =
                                   extend(@, h1[newSubtree].nodeMap)],
                              oldSubtree),
                LAMBDA h3 :
                  updateSignatures(
                      [h3 EXCEPT ![previousDOM].nodeMap =
                           _handleDeletions(@, h3[oldSubtree].nodeMap,
                                            h3[newSubtree].nodeMap)],
                      parent)))

\* DOMUpdater.prototype.update: u is the updater the constructor made.
\* status is "null" (no tree), "throw" (nodeMap[changedTagID] is undefined)
\* or "ok"; sdom is session.dom after the call.
\* the part of update() after the call of build, whose outcome is r
updateAfterBuild(u, r) ==
    LET newSubtree == r.root
        none == [status |-> "null", heap |-> r.heap, nextId |-> r.nextId,
                 newDOM |-> NULL, oldSubtree |-> NULL, newSubtree |-> NULL,
                 sdom |-> u.sdom, swapped |-> FALSE]
        default == [none EXCEPT !.status = "ok", !.newDOM = newSubtree,
                                !.oldSubtree = u.previousDOM,
                                !.newSubtree = newSubtree]
    IN IF ~r.ok THEN none
       ELSE IF u.changedTagID = 0
       THEN [default EXCEPT !.sdom = newSubtree]
       ELSE IF u.changedTagID \notin DOMAIN r.heap[u.previousDOM].nodeMap
       THEN [none EXCEPT !.status = "throw"]
       ELSE LET oldSubtree == r.heap[u.previousDOM].nodeMap[u.changedTagID]
                parent == r.heap[oldSubtree].parent
                childIndex == IF parent = NULL THEN 0
                              ELSE indexOf(r.heap[parent].children,
                                           oldSubtree, 1)
            IN IF parent = NULL \/ childIndex = 0 THEN default
               ELSE [default EXCEPT
                        !.heap = swapSubtree(r.heap, u.previousDOM,
                                     oldSubtree, newSubtree, parent,
                                     childIndex),
                        !.newDOM = u.previousDOM,
                        !.oldSubtree = oldSubtree,
                        !.swapped = TRUE]

update(u, nextId) ==
    With(build(u.heap, nextId,
               [text |-> u.text, startOffsetPos |-> u.startOffsetPos,
                updater |-> TRUE, sdom |-> u.sdom, prev |-> u.previousDOM]),
         LAMBDA r : updateAfterBuild(u, r))

\* _updateDOM(previousDOM, session, delta): the update's result, with the
\* new subtree's nodeMap deleted when it is not the whole tree; dom is the
\* returned dom property (NULL when absent), text is the text handed to the
\* builder and parsedWhole tells whether it was the whole document
_updateDOM(h, nextId, previousDOM, sdom, value, delta) ==
    With(DOMUpdater(h, previousDOM, sdom, value, delta), LAMBDA u :
    With(update(u, nextId), LAMBDA result :
       IF result.status # "ok"
       THEN [result EXCEPT !.newDOM = NULL] @@
            [dom |-> NULL, isIncremental |-> u.isIncremental,
             changedTagID |-> u.changedTagID, parsedWhole |-> u.text = value,
             text |-> u.text]
       ELSE [result EXCEPT !.heap =
                IF result.newSubtree # result.newDOM
                THEN [@ EXCEPT ![result.newSubtree].nodeMap = EmptyMap]
                ELSE @] @@
            [dom |-> result.newDOM, isIncremental |-> u.isIncremental,
             changedTagID |-> u.changedTagID, parsedWhole |-> u.text = value,
             text |-> u.text]))

(***************************************************************************)
(* The session and its operations                                          *)
(***************************************************************************)
VARIABLES
    value,       \* session.getValue(): the current text
    savedValue,  \* session.c9doc.meta.$savedValue
    heap,        \* the SimpleDOM nodes allocated so far
    dom,         \* session.dom
    savedDom,    \* session.savedDom
    nextId,      \* the identifier counter behind getNewID()
    ops,         \* number of operations performed
    last,        \* what the last operation did and returned
    browser      \* the tree observed in the browser and what was made of it

vars ==
    <<value, savedValue, heap, dom, savedDom, nextId, ops, last, browser>>

MaxOps == 2

\* <a><b><c></c>
\* y</b></a>
InitText ==
    <<"<", "a", ">", "<", "b", ">", "<", "c", ">", "<", "/", "c", ">", NL,
      "y", "<", "/", "b", ">", "<", "/", "a", ">">>

\* 0-based offsets at which the editor inserts or removes text: an element's
\* start boundary, inside its tag name, inside its content, at its end
\* boundary, and inside the text that follows it
EditSites == {6, 7, 9, 13, 14}

InsertTexts == {<<"b">>, <<"<">>, <<"<", "c", ">", "<", "/", "c", ">">>}

RemoveLengths == {1}

\* the text after inserting s at 0-based offset i
InsertAt(t, i, s) == SubSeq(t, 1, i) \o s \o SubSeq(t, i + 1, Len(t))

\* the text after removing n characters at 0-based offset i
RemoveAt(t, i, n) == SubSeq(t, 1, i) \o SubSeq(t, i + n + 1, Len(t))

\* the delta ace emits for the insertion
InsertDelta(t, i, s) ==
    [action |-> "insertText", start |-> indexToPosition(t, i),
     end |-> indexToPosition(InsertAt(t, i, s), i + Len(s)), text |-> s]

\* the delta ace emits for the removal
RemoveDelta(t, i, n) ==
    [action |-> "removeText", start |-> indexToPosition(t, i),
     end |-> indexToPosition(t, i + n), text |-> SubSeq(t, i + 1, i + n)]

NoCall ==
    [op |-> "none", status |-> "none", isIncremental |-> FALSE,
     swapped |-> FALSE, changedTagID |-> 0, delta |-> NoDelta,
     oldSubtree |-> NULL, newSubtree |-> NULL, dom |-> NULL,
     parsedWhole |-> FALSE, text |-> << >>, prevDom |-> NULL]

\* no tree has been observed in the browser
NoBrowser == [nodes |-> << >>, root |-> NULL, result |-> NULL]

\* what a call of _updateDOM did, for the record in last
CallRecord(op, r, delta, prevDom) ==
    [op |-> op, status |-> r.status, isIncremental |-> r.isIncremental,
     swapped |-> r.swapped, changedTagID |-> r.changedTagID,
     delta |-> delta, oldSubtree |-> r.oldSubtree,
     newSubtree |-> r.newSubtree, dom |-> r.dom,
     parsedWhole |-> r.parsedWhole, text |-> r.text,
     prevDom |-> prevDom]

Init ==
    /\ value = InitText
    /\ savedValue = InitText
    /\ heap = << >>
    /\ dom = NULL
    /\ savedDom = NULL
    /\ nextId = 1
    /\ ops = 0
    /\ last = NoCall
    /\ browser = NoBrowser

\* adoptResult without the test of line 579, as scanDocument assigns
adoptAlways(sdom, resultDom) == resultDom

\* adoptResult without the assignment of line 580: session.dom is left as
\* update() left it
adoptNever(sdom, resultDom) == sdom

\* lines 579-581: session.dom after getUnappliedEditList, given the dom
\* property of the result
adoptResult(sdom, resultDom) == IF resultDom # NULL THEN resultDom ELSE sdom

\* getUnappliedEditList(session, delta), called with the delta of the edit
\* that has just turned the text into newValue
getUnappliedEditList(newValue, delta) ==
    \E r \in {_updateDOM(heap, nextId, dom, dom, newValue, delta)} :
       /\ value' = newValue
       /\ heap' = IF dom # NULL /\ r.status # "throw"
                  THEN [r.heap EXCEPT ![dom].errors =
                           IF r.status = "ok" THEN "empty" ELSE "nonempty"]
                  ELSE r.heap
       /\ dom' = adoptResult(dom, r.dom)
       /\ nextId' = r.nextId
       /\ last' = CallRecord("getUnappliedEditList", r, delta, dom)
       /\ UNCHANGED <<savedValue, savedDom, browser>>

\* the editor inserts s at offset i and reports the delta; max bounds the
\* number of operations of a run
InsertText(i, s, max) ==
    /\ ops < max
    /\ i <= Len(value)
    /\ getUnappliedEditList(InsertAt(value, i, s), InsertDelta(value, i, s))
    /\ ops' = ops + 1

\* the editor removes n characters at offset i and reports the delta
RemoveText(i, n, max) ==
    /\ ops < max
    /\ i + n <= Len(value)
    /\ getUnappliedEditList(RemoveAt(value, i, n), RemoveDelta(value, i, n))
    /\ ops' = ops + 1

\* lines 670-671 and 690-691: session.savedDom, built from the saved text
\* when absent, as a build result
savedOrBuilt ==
    IF savedDom = NULL
    THEN build(heap, nextId, DefaultBuilder(savedValue))
    ELSE [ok |-> TRUE, heap |-> heap, root |-> savedDom, nextId |-> nextId]

\* scanDocument(session)
scanDocument(max) ==
    \E b0 \in {savedOrBuilt} :
    LET saved == b0.root
    IN /\ ops < max
       /\ ops' = ops + 1
       /\ savedDom' = saved
       /\ IF savedValue # value
          THEN \E r \in {_updateDOM(b0.heap, b0.nextId, saved, saved, value,
                                    NoDelta)} :
               /\ heap' = r.heap
               /\ nextId' = r.nextId
               /\ dom' = r.dom
               /\ last' = CallRecord("scanDocument", r, NoDelta, dom)
          ELSE /\ heap' = b0.heap
               /\ nextId' = b0.nextId
               /\ dom' = saved
               /\ last' = [NoCall EXCEPT !.op = "scanDocument",
                                         !.status = "cached",
                                         !.dom = saved, !.prevDom = dom]
       /\ UNCHANGED <<value, savedValue, browser>>

RECURSIVE CommonPrefix(_, _, _)
\* length of the common prefix of v1 and v2, counting from n
CommonPrefix(v1, v2, n) ==
    IF n < Len(v1) /\ n < Len(v2) /\ v1[n + 1] = v2[n + 1]
    THEN CommonPrefix(v1, v2, n + 1)
    ELSE n

RECURSIVE CommonSuffix(_, _, _, _)
\* length of the common suffix of v1 and v2 that stays clear of the first p
\* characters, counting from n
CommonSuffix(v1, v2, p, n) ==
    IF p + n < Len(v1) /\ p + n < Len(v2)
       /\ v1[Len(v1) - n] = v2[Len(v2) - n]
    THEN CommonSuffix(v1, v2, p, n + 1)
    ELSE n

\* getDeltaList(v1, v2), over the diff that diff_main yields for texts that
\* differ in one place: the common prefix, the removed middle of v1, the
\* inserted middle of v2, the common suffix
getDeltaList(v1, v2) ==
    LET p == CommonPrefix(v1, v2, 0)
        q == CommonSuffix(v1, v2, p, 0)
        nDel == Len(v1) - p - q
        ins == SubSeq(v2, p + 1, Len(v2) - q)
        rem == RemoveDelta(v1, p, nDel)
        put == InsertDelta(RemoveAt(v1, p, nDel), p, ins)
        del == IF nDel > 0
               THEN <<[rem EXCEPT !.action =
                         IF rem.end.row # rem.start.row THEN "removeLines"
                         ELSE "removeText"]>>
               ELSE << >>
        add == IF Len(ins) > 0
               THEN <<[put EXCEPT !.action =
                         IF put.end.row # put.start.row THEN "insertLines"
                         ELSE "insertText"]>>
               ELSE << >>
    IN del \o add

RECURSIVE updatePositionsAll(_, _, _, _)
\* deltas.forEach(updatePositions(dom, delta)), from index i
updatePositionsAll(h, d, deltas, i) ==
    IF i > Len(deltas) THEN h
    ELSE With(updatePositions(h, d, deltas[i]),
              LAMBDA h1 : updatePositionsAll(h1, d, deltas, i + 1))

\* syncTagIds(session); the idMap it returns is computed from savedDom
\* without changing it
syncTagIds(max) ==
    \E b0 \in {savedOrBuilt} :
    LET saved == b0.root
    IN /\ ops < max
       /\ ops' = ops + 1
       /\ savedDom' = saved
       /\ IF saved = NULL
          THEN /\ heap' = b0.heap
               /\ nextId' = b0.nextId
               /\ dom' = dom
               /\ last' = [NoCall EXCEPT !.op = "syncTagIds",
                                         !.status = "save",
                                         !.dom = dom, !.prevDom = dom]
          ELSE IF savedValue # value /\ dom = NULL
          THEN \E r \in {_updateDOM(
                             updatePositionsAll(b0.heap, saved,
                                 getDeltaList(savedValue, value), 1),
                             b0.nextId, saved, saved, value, NoDelta)} :
               /\ heap' = r.heap
               /\ nextId' = r.nextId
               /\ dom' = r.dom
               /\ last' = CallRecord("syncTagIds", r, NoDelta, dom)
          ELSE /\ heap' = b0.heap
               /\ nextId' = b0.nextId
               /\ dom' = IF dom # NULL THEN dom ELSE saved
               /\ last' = [NoCall EXCEPT !.op = "syncTagIds",
                                         !.status = "cached",
                                         !.dom = dom', !.prevDom = dom]
       /\ UNCHANGED <<value, savedValue, browser>>

Next ==
    \/ \E i \in EditSites, s \in InsertTexts : InsertText(i, s, MaxOps)
    \/ \E i \in EditSites, n \in RemoveLengths : RemoveText(i, n, MaxOps)
    \/ scanDocument(MaxOps)
    \/ syncTagIds(MaxOps)

Spec == Init /\ [][Next]_vars

(***************************************************************************)
(* Typing: longer runs of one-character edits at fewer places              *)
(***************************************************************************)
MaxTypingOps == 4

\* inside an element's tag name, inside its content, in the text after it
TypingSites == {7, 9, 14}

TypingTexts == {<<"b">>, <<"<">>}

NextTyping ==
    \/ \E i \in TypingSites, s \in TypingTexts : InsertText(i, s, MaxTypingOps)
    \/ \E i \in TypingSites : RemoveText(i, 1, MaxTypingOps)
    \/ scanDocument(MaxTypingOps)

SpecTyping == Init /\ [][NextTyping]_vars

(***************************************************************************)
(* updatePositions on its own: a tree built from a text, then shifted for  *)
(* edits of that text without a reparse (as syncTagIds shifts savedDom)    *)
(***************************************************************************)
MaxShifts == 1

MaxRemove == 3

\* <a><b></b>y
\* <c></c>y</a>
PosText ==
    <<"<", "a", ">", "<", "b", ">", "<", "/", "b", ">", "y", NL,
      "<", "c", ">", "<", "/", "c", ">", "y", "<", "/", "a", ">">>

PosInsertTexts == {<<"y">>, <<"y", "y">>, <<NL>>, <<NL, "y">>}

InitPos ==
    \E r \in {build(<< >>, 1, DefaultBuilder(PosText))} :
       /\ value = PosText
       /\ savedValue = PosText
       /\ heap = r.heap
       /\ dom = r.root
       /\ savedDom = NULL
       /\ nextId = r.nextId
       /\ ops = 0
       /\ last = NoCall
       /\ browser = NoBrowser

\* updatePositions(session.dom, delta) for the edit that turns the text into
\* newValue
shiftPositions(newValue, delta) ==
    /\ ops < MaxShifts
    /\ ops' = ops + 1
    /\ value' = newValue
    /\ heap' = updatePositions(heap, dom, delta)
    /\ last' = [NoCall EXCEPT !.op = "updatePositions", !.delta = delta,
                              !.dom = dom, !.prevDom = dom]
    /\ UNCHANGED <<savedValue, dom, savedDom, nextId, browser>>

ShiftInsert(i, s) ==
    shiftPositions(InsertAt(value, i, s), InsertDelta(value, i, s))

ShiftRemove(i, n) ==
    /\ i + n <= Len(value)
    /\ shiftPositions(RemoveAt(value, i, n), RemoveDelta(value, i, n))

NextPos ==
    \/ \E i \in 0..Len(value), s \in PosInsertTexts : ShiftInsert(i, s)
    \/ \E i \in 0..Len(value), n \in 1..MaxRemove : ShiftRemove(i, n)

SpecPos == InitPos /\ [][NextPos]_vars

(***************************************************************************)
(* Trees as sets of nodes                                                  *)
(***************************************************************************)
RECURSIVE Reach(_, _)
\* the nodes reachable from node n through children arrays
Reach(h, n) ==
    {n} \cup UNION {Reach(h, h[n].children[i]) : i \in 1..Len(h[n].children)}

\* the nodes of the tree rooted at root; empty when there is no tree
Nodes(h, root) == IF root = NULL THEN {} ELSE Reach(h, root)

Elements(h, root) == {n \in Nodes(h, root) : h[n].isElement}

\* the source text of the subtree at n: its tags and text content in
\* document order (shape, tag names and text, nothing else)
RECURSIVE Serialize(_, _)
RECURSIVE SerializeKids(_, _, _)
SerializeKids(h, n, i) ==
    IF i > Len(h[n].children) THEN << >>
    ELSE Serialize(h, h[n].children[i]) \o SerializeKids(h, n, i + 1)

Serialize(h, n) ==
    IF ~h[n].isElement THEN h[n].content
    ELSE <<"<">> \o h[n].tag \o <<">">> \o SerializeKids(h, n, 1)
         \o <<"<", "/">> \o h[n].tag \o <<">">>

\* a full parse of the text t from scratch
FullParse(t) == build(<< >>, 1, DefaultBuilder(t))

\* the document as a whole is valid: a full parse of t yields a tree
Valid(t) == FullParse(t).ok

IsEdit(l) == l.op = "getUnappliedEditList"

\* the span of n and the range of the edit share text: an insertion point
\* strictly inside the span, or a removed range that meets the span
Overlaps(h, n, delta) ==
    IF isInsert(delta)
    THEN /\ comparePoints(h[n].startPos, delta.start) < 0
         /\ comparePoints(delta.start, h[n].endPos) < 0
    ELSE /\ comparePoints(h[n].startPos, delta.end) < 0
         /\ comparePoints(delta.start, h[n].endPos) < 0

\* h2 holds the nodes of the tree at root as h1 does, but for their
\* positions and error lists
SameStructure(h1, h2, root) ==
    \A n \in Nodes(h1, root) :
        /\ h2[n].children = h1[n].children
        /\ h2[n].parent = h1[n].parent
        /\ h2[n].tagID = h1[n].tagID
        /\ h2[n].tag = h1[n].tag
        /\ h2[n].content = h1[n].content
        /\ h2[n].nodeMap = h1[n].nodeMap

\* every child's parent link names the node that lists it; the root has none
LinksConsistent(h, root) ==
    /\ h[root].parent = NULL
    /\ \A n \in Nodes(h, root) :
           \A i \in 1..Len(h[n].children) : h[h[n].children[i]].parent = n

(***************************************************************************)
(* C1  Identity stability: when getUnappliedEditList handles a             *)
(* non-dangerous edit on the incremental path, every element of the        *)
(* previous tree whose span does not overlap the edit range is in the      *)
(* resulting tree with the tagID (and tag) it had before the edit.         *)
(***************************************************************************)
IdentityStable ==
    [][(IsEdit(last') /\ last'.status = "ok" /\ last'.isIncremental)
        => \A n \in Elements(heap, dom) :
               ~Overlaps(heap, n, last'.delta)
               => \E m \in Elements(heap', dom') :
                      /\ heap'[m].tagID = heap[n].tagID
                      /\ heap'[m].tag = heap[n].tag]_vars

(***************************************************************************)
(* C2  The cached tree's nodeMap is exactly the set of tagIDs reachable    *)
(* from the cached root: every reachable node is mapped under its tagID to *)
(* itself and no key maps to a node that is not reachable.                 *)
(***************************************************************************)
NodeMapExact ==
    dom # NULL =>
        /\ DOMAIN heap[dom].nodeMap = {heap[n].tagID : n \in Nodes(heap, dom)}
        /\ \A n \in Nodes(heap, dom) : heap[dom].nodeMap[heap[n].tagID] = n

(***************************************************************************)
(* C3  In every tree snapshot an update produces, tagIDs are unique: no    *)
(* two distinct elements of the cached tree carry the same tagID.          *)
(***************************************************************************)
UniqueTagIDs ==
    \A n1, n2 \in Elements(heap, dom) :
        heap[n1].tagID = heap[n2].tagID => n1 = n2

(***************************************************************************)
(* Position shifts, under SpecPos                                          *)
(***************************************************************************)
IsShift(l) == l.op = "updatePositions"

SingleLineInsert(l) ==
    IsShift(l) /\ isInsert(l.delta) /\ l.delta.start.row = l.delta.end.row

\* where a boundary p belongs after the insertion of delta.text at
\* delta.start = (r, c): on row r, past column c (or at it, when atToo)
InsertShift(p, delta, atToo) ==
    IF /\ p.row = delta.start.row
       /\ \/ p.column > delta.start.column
          \/ atToo /\ p.column = delta.start.column
    THEN Pos(p.row, p.column + Len(delta.text))
    ELSE p

WellFormedSpans(h, root) ==
    \A n \in Elements(h, root) :
        /\ comparePoints(h[n].startPos, h[n].endPos) < 0
        /\ h[n].parent # NULL
           => /\ comparePoints(h[h[n].parent].startPos, h[n].startPos) < 0
              /\ comparePoints(h[n].endPos, h[h[n].parent].endPos) < 0

NoBoundaryInside(h, root, delta) ==
    \A n \in Elements(h, root) :
        \A p \in {h[n].startPos, h[n].endPos} :
            ~(comparePoints(delta.start, p) < 0
              /\ comparePoints(p, delta.end) < 0)

\* where a boundary p belongs after the removal of [delta.start, delta.end)
RemoveShift(p, delta) ==
    IF comparePoints(p, delta.end) >= 0
    THEN Pos(p.row - (delta.end.row - delta.start.row),
             IF p.row = delta.end.row
             THEN p.column - (delta.end.column - delta.start.column)
             ELSE p.column)
    ELSE p

(***************************************************************************)
(* C5  Position shift for deletion: when the removed range [start,end)     *)
(* has no boundary strictly inside it, every boundary at or after end      *)
(* moves by the inverse shift and every boundary at or before start stays. *)
(***************************************************************************)
DeletionShifts ==
    [][(IsShift(last') /\ ~isInsert(last'.delta)
        /\ NoBoundaryInside(heap, dom, last'.delta))
        => \A n \in Elements(heap, dom) :
               /\ heap'[n].startPos = RemoveShift(heap[n].startPos, last'.delta)
               /\ heap'[n].endPos = RemoveShift(heap[n].endPos, last'.delta)]_vars

(***************************************************************************)
(* C6  While the document as a whole is invalid, getUnappliedEditList      *)
(* returns no edit script.                                                 *)
(***************************************************************************)
NoEditsWhileInvalid ==
    (IsEdit(last) /\ ~Valid(value)) => last.status # "ok"

(***************************************************************************)
(* C7  Catch-up: after an invalid period in which the update failed, the   *)
(* first getUnappliedEditList call made when the document is valid again   *)
(* leaves a cached tree with the structure of a parse of the whole text.   *)
(***************************************************************************)
CatchUp ==
    [][(IsEdit(last') /\ ~Valid(value) /\ last.status = "null"
        /\ Valid(value'))
        => /\ dom' # NULL
           /\ Serialize(heap', dom')
                  = Serialize(FullParse(value').heap, FullParse(value').root)]_vars

Reparses(l) == l.op \in {"getUnappliedEditList", "scanDocument", "syncTagIds"}

(***************************************************************************)
(* C8  A failed parse is never adopted: when the builder yields no tree in *)
(* getUnappliedEditList, scanDocument or syncTagIds, session.dom still     *)
(* refers to the previous valid tree afterwards.                           *)
(***************************************************************************)
FailedParseNotAdopted ==
    [][(Reparses(last') /\ last'.status = "null" /\ dom # NULL)
        => dom' = dom]_vars

\* the incremental reparse of the narrowed span failed: the text handed to
\* the builder was an enclosing node's, and the builder yielded no tree
NarrowedFailed(l) ==
    IsEdit(l) /\ l.status = "null" /\ l.changedTagID # 0

OldSnapshot ==
    /\ dom' = dom
    /\ SameStructure(heap, heap', dom)

\* root.nodeMap names reachable nodes only, and every reachable tagID
NodeMapPatched(h, root) ==
    /\ \A k \in DOMAIN h[root].nodeMap : h[root].nodeMap[k] \in Nodes(h, root)
    /\ \A n \in Nodes(h, root) : h[n].tagID \in DOMAIN h[root].nodeMap

\* the new subtree stands where the old one stood, linked on both sides,
\* and the old one is cut off
NewSnapshot(l) ==
    LET o == l.oldSubtree
        n == l.newSubtree
        p == heap[o].parent
        i == indexOf(heap[p].children, o, 1)
    IN /\ dom' = dom
       /\ p # NULL /\ i # 0
       /\ heap'[p].children = [heap[p].children EXCEPT ![i] = n]
       /\ heap'[n].parent = p
       /\ heap'[o].parent = NULL
       /\ o \notin Nodes(heap', dom')
       /\ LinksConsistent(heap', dom')
       /\ NodeMapPatched(heap', dom')

\* the whole tree is replaced by a freshly built one
ReplacedSnapshot(l) ==
    /\ dom' = l.newSubtree
    /\ Nodes(heap', dom') \cap Nodes(heap, dom) = {}
    /\ LinksConsistent(heap', dom')
    /\ NodeMapPatched(heap', dom')

MaxEdits == 1

EditOffsets == {1, 3, 6, 7, 9, 11, 13, 14, 15, 19, 20, 23}

Amp == <<"&", "a", "m", "p", ";">>

EditTexts ==
    {<<"b">>, Amp, <<"<", "c", ">", "<", "/", "c", ">">>,
     <<"<">>, <<">">>, <<"/">>, <<"=">>, <<"\"">>, <<"'">>}

\* the session after scanDocument of an unchanged document: session.dom and
\* session.savedDom are the tree built from the saved text
InitScanned ==
    \E r \in {build(<< >>, 1, DefaultBuilder(InitText))} :
       /\ value = InitText
       /\ savedValue = InitText
       /\ heap = r.heap
       /\ dom = r.root
       /\ savedDom = r.root
       /\ nextId = r.nextId
       /\ ops = 0
       /\ last = NoCall
       /\ browser = NoBrowser

NextEdits ==
    \/ \E i \in EditOffsets, s \in EditTexts : InsertText(i, s, MaxEdits)
    \/ \E i \in EditOffsets : RemoveText(i, 1, MaxEdits)

\* a session before its first scan, or after it
InitEdits == Init \/ InitScanned

SpecEdits == InitEdits /\ [][NextEdits]_vars

\* the characters that can open, close or alter a tag
StructuralChars == {"<", ">", "/", "=", "\"", "'"}

HasStructuralChar(text) == \E i \in 1..Len(text) : text[i] \in StructuralChars

(***************************************************************************)
(* C11  Dangerous-edit detection: an edit whose inserted or removed text   *)
(* contains any of < > / = " ' is never handled incrementally, the whole   *)
(* document text is reparsed; an edit whose text is &amp; alone is not     *)
(* forced to a full reparse (with a cached tree it is incremental).        *)
(***************************************************************************)
DangerousEditsReparseAll ==
    [][IsEdit(last')
        => /\ HasStructuralChar(last'.delta.text)
              => (~last'.isIncremental /\ last'.parsedWhole)
           /\ (last'.delta.text = Amp /\ dom # NULL)
              => last'.isIncremental]_vars

\* an edit with a structural character has been handled with a tree cached
DangerousEditSeen ==
    /\ IsEdit(last)
    /\ HasStructuralChar(last.delta.text)
    /\ last.prevDom # NULL
    /\ ~last.isIncremental

(***************************************************************************)
(* Sequences of edits of a scanned document: letters typed into content    *)
(* and text, a complete element inserted (empty or with text), one         *)
(* character removed                                                       *)
(***************************************************************************)
MaxSequence == 3

SequenceOffsets == {6, 7, 9, 14}

SequenceTexts ==
    {<<"b">>, <<"<", "c", ">", "<", "/", "c", ">">>,
     <<"<", "c", ">", "y", "<", "/", "c", ">">>}

NextSequence ==
    \/ \E i \in SequenceOffsets, s \in SequenceTexts :
          InsertText(i, s, MaxSequence)
    \/ \E i \in SequenceOffsets : RemoveText(i, 1, MaxSequence)

SpecSequence == InitScanned /\ [][NextSequence]_vars

\* the tree at d has the shape, tag names and text content of a tree
\* obtained by one full parse of the text v
InSync(h, d, v) ==
    /\ d # NULL
    /\ \E p \in {FullParse(v)} :
          /\ p.ok
          /\ Serialize(h, d) = Serialize(p.heap, p.root)

(***************************************************************************)
(* C12  Re-parse equivalence: a successful incremental update of a cached  *)
(* tree that has the shape, tag names and text content of a full parse of  *)
(* the text before the edit leaves a cached tree that has the shape, tag   *)
(* names and text content of a full parse of the text after the edit; by   *)
(* induction the same holds after any number of incremental updates.       *)
(***************************************************************************)
ReparseEquivalence ==
    [][(/\ IsEdit(last')
        /\ last'.status = "ok"
        /\ last'.isIncremental
        /\ InSync(heap, dom, value))
        => InSync(heap', dom', value')]_vars

(***************************************************************************)
(* The reconciler: _processBrowserSimpleDOM and _getBrowserDiff.  The diff *)
(* itself (HTMLDOMDiff.domdiff) is outside this file and is not modelled.  *)
(***************************************************************************)
\* JavaScript values of the data-cloud9-id attribute and of tagID: a number,
\* the decimal string of a number (what an attribute read from markup
\* holds), or undefined (no such attribute)
Undefined == [type |-> "undefined", n |-> 0]

Num(n) == [type |-> "number", n |-> n]

Str(n) == [type |-> "string", n |-> n]

\* a === b: the same type and the same value
StrictEquals(a, b) == a = b

\* the property name under which v indexes nodeMap: a number and its decimal
\* string name the same property; 0 stands for the name "undefined"
KeyOf(v) == v.n

\* a node of the observed tree as it arrives: no parent links, no tagID
ObservedNode(isElement, id, children) ==
    [isElement |-> isElement, dataCloud9Id |-> id, tagID |-> Undefined,
     children |-> children, parent |-> NULL, nodeMap |-> EmptyMap]

RECURSIVE _processElement(_, _, _)
RECURSIVE processChildren(_, _, _, _)
\* elem.children.forEach of _processElement, from index i (1-based);
\* st = [nodes, nodeMap, root]
processChildren(st, elem, sessionRootTagID, i) ==
    IF i > Len(st.nodes[elem].children) THEN st
    ELSE LET child == st.nodes[elem].children[i]
             linked == [st EXCEPT !.nodes[child].parent = elem]
             id == Num(getTextNodeID(KeyOf(st.nodes[elem].tagID), i - 1))
         IN  With(IF st.nodes[child].isElement
                  THEN _processElement(linked, child, sessionRootTagID)
                  ELSE [linked EXCEPT !.nodes[child].tagID = id,
                                      !.nodeMap = MapPut(@, KeyOf(id), child)],
                  LAMBDA s1 :
                      processChildren(s1, elem, sessionRootTagID, i + 1))

_processElement(st, elem, sessionRootTagID) ==
    With([st EXCEPT !.nodes[elem].tagID = st.nodes[elem].dataCloud9Id,
                    !.nodes[elem].dataCloud9Id = Undefined],
         LAMBDA s0 :
             With(processChildren(s0, elem, sessionRootTagID, 1),
                  LAMBDA s1 :
                      [s1 EXCEPT
                         !.nodeMap = MapPut(@, KeyOf(s1.nodes[elem].tagID),
                                            elem),
                         !.root = IF StrictEquals(s1.nodes[elem].tagID,
                                                  sessionRootTagID)
                                  THEN elem ELSE @]))

\* returns the observed nodes as processed and the root chosen
_processBrowserSimpleDOM(nodes, browserRoot, sessionRootTagID) ==
    With(_processElement([nodes |-> nodes, nodeMap |-> EmptyMap,
                          root |-> NULL],
                         browserRoot, sessionRootTagID),
         LAMBDA st :
             LET root == IF st.root # NULL THEN st.root ELSE browserRoot
             IN  [nodes |-> [st.nodes EXCEPT ![root].nodeMap = st.nodeMap],
                  root |-> root])

_getBrowserDiff ==
    /\ dom # NULL
    /\ browser.root # NULL
    /\ browser.result = NULL
    /\ \E r \in {_processBrowserSimpleDOM(browser.nodes, browser.root,
                                          Num(heap[dom].tagID))} :
          browser' = [nodes |-> r.nodes, root |-> browser.root,
                      result |-> r.root]
    /\ UNCHANGED <<value, savedValue, heap, dom, savedDom, nextId, ops, last>>

MaxObserved == 4

\* what an observed element may carry: no identifier (an element the
\* renderer injected), the identifier of the session's root as a number or
\* as an attribute string, the identifier of another element
ObservedIds == {Undefined, Num(1), Str(1), Num(2)}

\* the session after a scan, and any observed tree of up to MaxObserved
\* nodes: node 1 is the observed root, p[k] is the parent of node k
InitBrowser ==
    \E r \in {build(<< >>, 1, DefaultBuilder(InitText))},
       n \in 1..MaxObserved :
       \E kind \in [1..n -> BOOLEAN], p \in [2..n -> 1..n],
          a \in [1..n -> ObservedIds] :
          /\ kind[1]
          /\ \A k \in 2..n : p[k] < k /\ kind[p[k]]
          /\ \A k \in 1..n : ~kind[k] => a[k] = Undefined
          /\ browser =
                [nodes |->
                    [k \in 1..n |->
                        ObservedNode(kind[k], a[k],
                            SelectSeq([j \in 1..n |-> j],
                                      LAMBDA j : j >= 2 /\ p[j] = k))],
                 root |-> 1, result |-> NULL]
          /\ value = InitText
          /\ savedValue = InitText
          /\ heap = r.heap
          /\ dom = r.root
          /\ savedDom = r.root
          /\ nextId = r.nextId
          /\ ops = 0
          /\ last = NoCall

NextBrowser == _getBrowserDiff

SpecBrowser == InitBrowser /\ [][NextBrowser]_vars

\* the observed elements that carry the identifier id
Carriers(id) ==
    {n \in 1..Len(browser.nodes) :
        /\ browser.nodes[n].isElement
        /\ browser.nodes[n].tagID.type # "undefined"
        /\ browser.nodes[n].tagID.n = id}

LookupText ==
    <<"y", "<", "a", ">", "<", "b", ">", "<", "c", ">", "<", "/", "c", ">",
      "y", "<", "/", "b", ">", NL,
      "<", "c", ">", "<", "/", "c", ">", "<", "/", "a", ">", "y">>

LookupTexts == {InitText, LookupText}

\* the session after a scan of one of the texts, or before any scan
InitLookup ==
    \E t \in LookupTexts, cached \in BOOLEAN :
       \E r \in {build(<< >>, 1, DefaultBuilder(t))} :
          /\ value = t
          /\ savedValue = t
          /\ heap = IF cached THEN r.heap ELSE << >>
          /\ dom = IF cached THEN r.root ELSE NULL
          /\ savedDom = dom
          /\ nextId = IF cached THEN r.nextId ELSE 1
          /\ ops = 0
          /\ last = NoCall
          /\ browser = NoBrowser

\* a call of _getTagIDAtDocumentPos(session, pos)
GetTagIDAt(pos) ==
    /\ last' = [op |-> "_getTagIDAtDocumentPos", pos |-> pos,
                preferParent |-> FALSE,
                node |-> _getNodeAtDocumentPos(heap, dom, pos, FALSE),
                tagID |-> _getTagIDAtDocumentPos(heap, dom, pos)]
    /\ UNCHANGED <<value, savedValue, heap, dom, savedDom, nextId, ops,
                   browser>>

\* a call of _getNodeAtDocumentPos(session, pos, preferParent)
GetNodeAt(pos, preferParent) ==
    /\ last' = [op |-> "_getNodeAtDocumentPos", pos |-> pos,
                preferParent |-> preferParent,
                node |-> _getNodeAtDocumentPos(heap, dom, pos, preferParent),
                tagID |-> 0]
    /\ UNCHANGED <<value, savedValue, heap, dom, savedDom, nextId, ops,
                   browser>>

\* every position of the text, from its start to its end
TextPositions(t) == {indexToPosition(t, n) : n \in 0..Len(t)}

NextLookup ==
    \/ \E pos \in TextPositions(value) : GetTagIDAt(pos)
    \/ \E pos \in TextPositions(value), preferParent \in BOOLEAN :
          GetNodeAt(pos, preferParent)

SpecLookup == InitLookup /\ [][NextLookup]_vars

\* the span of n contains pos, its two boundaries included
SpanContains(h, n, pos) ==
    /\ comparePoints(h[n].startPos, pos) <= 0
    /\ comparePoints(pos, h[n].endPos) <= 0

(***************************************************************************)
(* C14  _getTagIDAtDocumentPos returns -1 whenever no element's span       *)
(* contains the position (before the root's start, after the root's end,   *)
(* or with no tree cached) and otherwise the tagID of an element whose     *)
(* span contains the position.                                             *)
(***************************************************************************)
TagIDAtPosition ==
    last.op = "_getTagIDAtDocumentPos"
    => IF \E n \in Elements(heap, dom) : SpanContains(heap, n, last.pos)
       THEN \E n \in Elements(heap, dom) :
               /\ SpanContains(heap, n, last.pos)
               /\ last.tagID = heap[n].tagID
       ELSE last.tagID = 0 - 1

(***************************************************************************)
(* C15  The position-shift step changes only startPos/endPos: for every    *)
(* tree and every delta, updatePositions leaves every node's tagID, tag,   *)
(* parent link and children sequence, the number of nodes, and the nodeMap *)
(* unchanged.                                                              *)
(***************************************************************************)
ShiftChangesPositionsOnly ==
    [][IsShift(last')
        => /\ Len(heap') = Len(heap)
           /\ Nodes(heap', dom') = Nodes(heap, dom)
           /\ \A n \in 1..Len(heap) :
                 /\ heap'[n].tagID = heap[n].tagID
                 /\ heap'[n].tag = heap[n].tag
                 /\ heap'[n].parent = heap[n].parent
                 /\ heap'[n].children = heap[n].children
                 /\ heap'[n].nodeMap = heap[n].nodeMap
                 /\ heap'[n].isElement = heap[n].isElement
                 /\ heap'[n].content = heap[n].content]_vars

\* a shift has moved a boundary of some element of the tree
ShiftMovedBoundary ==
    /\ IsShift(last)
    /\ ops = 1
    /\ \E p \in {FullParse(PosText)} :
          \E n \in Elements(heap, dom) :
             \/ heap[n].startPos # p.heap[n].startPos
             \/ heap[n].endPos # p.heap[n].endPos

\* character k of t (1-based) is part of a tag
InTag(t, k) ==
    \E j \in 1..k : t[j] = "<" /\ \A m \in j..(k - 1) : t[m] # ">"

\* the insertion point at 0-based offset i lies in text content: it is
\* outside every tag and a character of text precedes or follows it
InTextContent(t, i) ==
    /\ 1 <= i
    /\ i < Len(t)
    /\ ~InTag(t, i) \/ t[i] = ">"
    /\ ~InTag(t, i) \/ ~InTag(t, i + 1)

\* the elements whose span strictly contains pos
StrictlyAround(h, root, pos) ==
    {n \in Elements(h, root) :
        /\ comparePoints(h[n].startPos, pos) < 0
        /\ comparePoints(pos, h[n].endPos) < 0}

\* the innermost of them: none of its children is one
Innermost(h, root, pos) ==
    {n \in StrictlyAround(h, root, pos) :
        \A i \in 1..Len(h[n].children) :
            h[n].children[i] \notin StrictlyAround(h, root, pos)}

RECURSIVE SpansOf(_, _)
RECURSIVE SpansOfKids(_, _, _)
SpansOfKids(h, n, i) ==
    IF i > Len(h[n].children) THEN << >>
    ELSE SpansOf(h, h[n].children[i]) \o SpansOfKids(h, n, i + 1)

\* the spans of the elements of the subtree at n, in document order
SpansOf(h, n) ==
    IF ~h[n].isElement THEN << >>
    ELSE <<<<h[n].startPos, h[n].endPos>>>> \o SpansOfKids(h, n, 1)

\* the tree at d is the tree of the text v: it has the shape, tag names,
\* text content and element spans of a full parse of v
TreeOfText(h, d, v) ==
    /\ d # NULL
    /\ \E p \in {FullParse(v)} :
          /\ p.ok
          /\ Serialize(h, d) = Serialize(p.heap, p.root)
          /\ SpansOf(h, d) = SpansOf(p.heap, p.root)

\* the insertion of last' is a non-dangerous insertion into the text
\* content of the element E of the cached tree, which is the tree of the
\* text, and E has a parent
TextInsertionInto(E) ==
    /\ IsEdit(last')
    /\ isInsert(last'.delta)
    /\ ~HasStructuralChar(last'.delta.text)
    /\ TreeOfText(heap, dom, value)
    /\ InTextContent(value, positionToIndex(value, last'.delta.start))
    /\ Innermost(heap, dom, last'.delta.start) = {E}
    /\ heap[E].parent # NULL

\* the nodes of the tree at dom that are not in the subtree of E are in h2
\* what they are in h1, but for their positions, the root's nodeMap and the
\* place of E among its parent's children, which S has taken
UntouchedOutside(h1, h2, root, E, S) ==
    \A n \in Nodes(h1, root) \ Nodes(h1, E) :
        /\ h2[n].tagID = h1[n].tagID
        /\ h2[n].tag = h1[n].tag
        /\ h2[n].content = h1[n].content
        /\ h2[n].isElement = h1[n].isElement
        /\ h2[n].parent = h1[n].parent
        /\ h2[n].children
              = [i \in 1..Len(h1[n].children) |->
                    IF h1[n].children[i] = E THEN S ELSE h1[n].children[i]]

(***************************************************************************)
(* C16  A non-dangerous insertion into the text content of an element E    *)
(* that has a parent, in a document whose cached tree is the tree of its   *)
(* text, takes the incremental path, reparses exactly E's span, keeps E's  *)
(* tagID, and leaves every node outside E untouched (when E's span does    *)
(* not parse, nothing at all is touched).                                  *)
(***************************************************************************)
TextInsertionIsLocal ==
    [][\A E \in Elements(heap, dom) :
          TextInsertionInto(E)
          => /\ last'.isIncremental
             /\ last'.text = getTextRange(value', heap[E].startPos,
                                 updatePos(last'.delta, heap[E].endPos))
             /\ dom' = dom
             /\ heap'[E].tagID = heap[E].tagID
             /\ \/ /\ last'.status = "null"
                   /\ SameStructure(heap, heap', dom)
                \/ /\ last'.status = "ok"
                   /\ last'.swapped
                   /\ last'.oldSubtree = E
                   /\ heap'[last'.newSubtree].tagID = heap[E].tagID
                   /\ heap'[last'.newSubtree].startPos = heap[E].startPos
                   /\ heap'[last'.newSubtree].endPos
                         = updatePos(last'.delta, heap[E].endPos)
                   /\ Serialize(heap', last'.newSubtree) = last'.text
                   /\ UntouchedOutside(heap, heap', dom, E,
                                       last'.newSubtree)]_vars

RECURSIVE IdsOf(_, _)
RECURSIVE IdsOfKids(_, _, _)
IdsOfKids(h, n, i) ==
    IF i > Len(h[n].children) THEN << >>
    ELSE IdsOf(h, h[n].children[i]) \o IdsOfKids(h, n, i + 1)

\* the tagIDs of the elements of the subtree at n, in document order
IdsOf(h, n) ==
    IF ~h[n].isElement THEN << >>
    ELSE <<h[n].tagID>> \o IdsOfKids(h, n, 1)

\* the sequence s without its k-th member
Without(s, k) == SubSeq(s, 1, k - 1) \o SubSeq(s, k + 1, Len(s))

\* the texts of a complete element
CompleteElements ==
    {<<"<", "c", ">", "<", "/", "c", ">">>,
     <<"<", "c", ">", "y", "<", "/", "c", ">">>}

\* the edit of last' inserts a complete element between the tags of E, an
\* element of the cached tree, which is the tree of the text
ElementInsertionInto(E) ==
    /\ IsEdit(last')
    /\ isInsert(last'.delta)
    /\ last'.delta.text \in CompleteElements
    /\ TreeOfText(heap, dom, value)
    /\ \E i \in {positionToIndex(value, last'.delta.start)} :
          i >= 1 /\ (~InTag(value, i) \/ value[i] = ">")
    /\ Innermost(heap, dom, last'.delta.start) = {E}

(***************************************************************************)
(* C17  Inserting a complete new element inside an existing element E is a *)
(* dangerous edit handled by a full reparse in which E and every other     *)
(* pre-existing element keep their tagIDs and exactly the newly inserted   *)
(* element receives an identifier that did not occur in the previous tree. *)
(***************************************************************************)
InsertedElementGetsFreshID ==
    [][\A E \in Elements(heap, dom) :
          ElementInsertionInto(E)
          => /\ ~last'.isIncremental
             /\ last'.parsedWhole
             /\ last'.status = "ok"
             /\ \E k \in 1..Len(IdsOf(heap', dom')) :
                   /\ SpansOf(heap', dom')[k][1] = last'.delta.start
                   /\ Without(IdsOf(heap', dom'), k) = IdsOf(heap, dom)
                   /\ \A j \in 1..Len(IdsOf(heap, dom)) :
                         IdsOf(heap', dom')[k] # IdsOf(heap, dom)[j]]_vars

RECURSIVE AncestorIDs(_, _, _)
\* the tagIDs of the ancestors of m, up to the node top
AncestorIDs(h, m, top) ==
    IF m = top \/ h[m].parent = NULL THEN {}
    ELSE {h[h[m].parent].tagID} \cup AncestorIDs(h, h[m].parent, top)

\* the previous tree as getID sees it while the edit of last' is handled:
\* its positions shifted, its structure not yet changed
ShiftedHeap == DOMUpdater(heap, dom, dom, value', last'.delta).heap

\* the identifier getID finds in the previous tree H for the position of
\* the new element m
FoundID(H, m) ==
    _getTagIDAtDocumentPos(H, dom, _offsetPos(heap'[m].startPos, 1))

\* m, an element built while the edit of last' was handled, must be new by
\* the policy: nothing was found at its position, or what was found is the
\* identifier of one of its ancestors, or of a previous node of another tag
MustBeFresh(H, m) ==
    \E found \in {FoundID(H, m)} :
       \/ found = 0 - 1
       \/ found \in AncestorIDs(heap', m, last'.newSubtree)
       \/ found \notin DOMAIN H[dom].nodeMap
       \/ H[H[dom].nodeMap[found]].tag # heap'[m].tag

\* an identifier taken from the counter while the edit was handled
IsFresh(id) == nextId <= id /\ id < nextId'

(***************************************************************************)
(* C18  Identity policy of getID: a newly parsed element receives a fresh  *)
(* identifier when no previous node is found at its position, when the     *)
(* found identifier belongs to an ancestor of the new element, or when the *)
(* previous node with the found identifier has a different tag name, and   *)
(* the found identifier otherwise; no tagID denotes elements with two      *)
(* different tag names in consecutive snapshots.                           *)
(***************************************************************************)
IdentityPolicy ==
    [][(IsEdit(last') /\ last'.status = "ok")
        => /\ \E H \in {ShiftedHeap} :
                 \A m \in Elements(heap', last'.newSubtree) :
                    IF MustBeFresh(H, m) THEN IsFresh(heap'[m].tagID)
                    ELSE heap'[m].tagID = FoundID(H, m)
           /\ \A n \in Elements(heap, dom), m \in Elements(heap', dom') :
                 heap[n].tagID = heap'[m].tagID
                 => heap[n].tag = heap'[m].tag]_vars

\* a whole tree has been built with a tree cached, and one of its elements
\* is new because the identifier found at its position is an ancestor's,
\* while its ancestors have kept the identifiers found at theirs
FreshUnderAncestorSeen ==
    /\ IsEdit(last)
    /\ last.status = "ok"
    /\ ~last.swapped
    /\ last.prevDom # NULL
    /\ \E m \in Elements(heap, last.newSubtree) :
          /\ _getTagIDAtDocumentPos(heap, last.prevDom,
                                    _offsetPos(heap[m].startPos, 1))
                \in AncestorIDs(heap, m, last.newSubtree)
          /\ heap[m].tagID \notin DOMAIN heap[last.prevDom].nodeMap

\* the elements below the root whose span strictly contains pos
StrictlyBelowRoot(h, root, pos) == StrictlyAround(h, root, pos) \ {root}

(***************************************************************************)
(* C19  Enclosing-node selection: findNode(root, pos, preferParent = true) *)
(* returns the deepest element whose span strictly contains pos; when pos  *)
(* lies exactly on the start or end boundary of an element it returns that *)
(* element's parent, and when no child of the root strictly contains pos   *)
(* it returns the root.                                                    *)
(***************************************************************************)
EnclosingNodeSelection ==
    (last.op = "_getNodeAtDocumentPos" /\ last.preferParent /\ dom # NULL)
    => /\ IF StrictlyBelowRoot(heap, dom, last.pos) = {}
          THEN last.node = dom
          ELSE /\ last.node \in StrictlyBelowRoot(heap, dom, last.pos)
               /\ \A i \in 1..Len(heap[last.node].children) :
                     heap[last.node].children[i]
                        \notin StrictlyBelowRoot(heap, dom, last.pos)
       /\ \A n \in Elements(heap, dom) \ {dom} :
             (last.pos = heap[n].startPos \/ last.pos = heap[n].endPos)
             => last.node = heap[n].parent

\* the enclosing node has been looked up for the start boundary of an
\* element that lies two levels below the root, and its parent was returned
BoundaryLookupSeen ==
    /\ last.op = "_getNodeAtDocumentPos"
    /\ last.preferParent
    /\ dom # NULL
    /\ \E n \in Elements(heap, dom) :
          /\ last.pos = heap[n].startPos
          /\ heap[n].parent # NULL
          /\ heap[n].parent # dom
          /\ last.node = heap[n].parent

\* the edit of last' is a non-dangerous edit whose enclosing node in the
\* cached tree, its positions shifted, is the root: no child of the root
\* strictly contains the start of the edit
RootEncloses ==
    /\ IsEdit(last')
    /\ Len(last'.delta.text) > 0
    /\ ~HasStructuralChar(last'.delta.text)
    /\ dom # NULL
    /\ \E H \in {ShiftedHeap} :
          \A i \in 1..Len(H[dom].children) :
             H[dom].children[i] \notin StrictlyAround(H, dom, last'.delta.start)

(***************************************************************************)
(* C20  When the node enclosing a non-dangerous edit is the document root, *)
(* the update is treated as a full update: the previous tree is not        *)
(* mutated structurally, and when the build yields a tree the returned     *)
(* oldSubtree is the whole previous tree, the returned newSubtree and      *)
(* newDOM are the same newly built tree, and that tree becomes the cached  *)
(* snapshot.                                                               *)
(***************************************************************************)
RootEditIsFullUpdate ==
    [][RootEncloses
        => /\ last'.changedTagID = heap[dom].tagID
           /\ ~last'.swapped
           /\ SameStructure(heap, heap', dom)
           /\ \/ last'.status = "null" /\ dom' = dom
              \/ /\ last'.status = "ok"
                 /\ last'.oldSubtree = dom
                 /\ last'.newSubtree = last'.dom
                 /\ last'.newSubtree > Len(heap)
                 /\ dom' = last'.newSubtree
                 /\ heap'[dom'].parent = NULL
                 /\ Serialize(heap', dom') = last'.text]_vars

\* a non-dangerous edit enclosed by the root has been handled and a newly
\* built tree has replaced the cached one
RootEditSeen ==
    /\ IsEdit(last)
    /\ Len(last.delta.text) > 0
    /\ ~HasStructuralChar(last.delta.text)
    /\ last.isIncremental
    /\ last.status = "ok"
    /\ last.prevDom # NULL
    /\ last.changedTagID = heap[last.prevDom].tagID
    /\ last.oldSubtree = last.prevDom
    /\ dom = last.newSubtree
    /\ dom # last.prevDom

RECURSIVE AncestorsOf(_, _)
AncestorsOf(h, n) ==
    IF h[n].parent = NULL THEN {}
    ELSE {h[n].parent} \cup AncestorsOf(h, h[n].parent)

\* the signature a node holds was computed from the content its subtree
\* has now
SignatureCurrent(h, n) == h[n].signature = Serialize(h, n)

\* C22: after every successful incremental update every ancestor of the
\* spliced subtree, from its parent up to and including the root, holds a
\* signature computed after the splice, and no node reachable from the
\* cached tree holds a signature of a content that is no longer its own
SignaturesRecomputed ==
    (IsEdit(last) /\ last.status = "ok" /\ dom # NULL)
        => /\ \A n \in Nodes(heap, dom) : SignatureCurrent(heap, n)
           /\ last.swapped
                 => \A a \in AncestorsOf(heap, last.newSubtree) :
                       SignatureCurrent(heap, a)

\* a splice below a proper descendant of the root has changed the content
\* of at least two ancestors, and each of them holds the signature of its
\* new content
AncestorSignaturesSeen ==
    /\ IsEdit(last) /\ last.status = "ok" /\ last.swapped
    /\ heap[last.newSubtree].parent # dom
    /\ Serialize(heap, last.newSubtree) # Serialize(heap, last.oldSubtree)
    /\ \A a \in AncestorsOf(heap, last.newSubtree) :
          SignatureCurrent(heap, a)

\* C23: on every update request that carries a delta and has a previous
\* tree, the positions of the previous tree's nodes after the call are
\* those of one application of the shift, whether the edit is dangerous or
\* not and whether the parse succeeds or fails; and the classification and
\* the lookup of the enclosing node see the shifted positions: an
\* incremental request reparses the text of the span the enclosing node has
\* after the shift
ShiftOnceBeforeClassification ==
    [][(IsEdit(last') /\ dom # NULL /\ last'.delta # NoDelta)
        => \E H \in {updatePositions(heap, dom, last'.delta)} :
              /\ \A n \in Nodes(heap, dom) :
                    /\ heap'[n].startPos = H[n].startPos
                    /\ heap'[n].endPos = H[n].endPos
              /\ last'.isIncremental
                    <=> /\ Len(last'.delta.text) > 0
                        /\ ~isDangerousEdit(last'.delta.text)
                        /\ findNode(H, dom, last'.delta.start, TRUE) # NULL
              /\ last'.isIncremental
                    => \E m \in {findNode(H, dom, last'.delta.start, TRUE)} :
                          /\ last'.changedTagID = H[m].tagID
                          /\ last'.text = getTextRange(value', H[m].startPos,
                                                       H[m].endPos)]_vars

\* a dangerous edit whose parse failed has left the previous tree in
\* place, with spans that are no longer those of the scanned text
ShiftedDespiteFailure ==
    /\ IsEdit(last) /\ last.status = "null" /\ last.prevDom # NULL
    /\ dom = last.prevDom
    /\ isDangerousEdit(last.delta.text)
    /\ \E r \in {FullParse(savedValue)} :
          r.ok /\ SpansOf(heap, dom) # SpansOf(r.heap, r.root)

\* the observed nodes of the subtree at n, n included
RECURSIVE ObservedSubtree(_, _)
ObservedSubtree(nodes, n) ==
    {n} \cup UNION {ObservedSubtree(nodes, nodes[n].children[i]) :
                       i \in 1..Len(nodes[n].children)}

\* C24: the comparison root the reconciler returns carries a nodeMap
\* restricted to its own subtree: the keys are exactly the tagIDs of the
\* nodes reachable from the returned root, also when that root is a proper
\* descendant of the observed root
ReconcilerMapRestricted ==
    browser.result # NULL
        => DOMAIN browser.nodes[browser.result].nodeMap
              = {KeyOf(browser.nodes[n].tagID) :
                    n \in ObservedSubtree(browser.nodes, browser.result)}

\* C25: a getUnappliedEditList call leaves the tree cached as
\* session.savedDom as it was: the same root, and for each of its nodes the
\* same tagID, tag, text, parent, children and positions, so that the tree
\* stays the tree of the saved text
SavedDomUnaltered ==
    [][(IsEdit(last') /\ savedDom # NULL)
        => /\ savedDom' = savedDom
           /\ \A n \in Nodes(heap, savedDom) :
                 /\ heap'[n].tagID = heap[n].tagID
                 /\ heap'[n].tag = heap[n].tag
                 /\ heap'[n].content = heap[n].content
                 /\ heap'[n].parent = heap[n].parent
                 /\ heap'[n].children = heap[n].children
                 /\ heap'[n].startPos = heap[n].startPos
                 /\ heap'[n].endPos = heap[n].endPos]_vars

\* every element starts at or before its end, lies within its parent's
\* span, and sibling elements follow each other in document order without
\* overlap
SpansOrdered(h, root) ==
    \A n \in Elements(h, root) :
        /\ comparePoints(h[n].startPos, h[n].endPos) <= 0
        /\ h[n].parent # NULL
           => /\ comparePoints(h[h[n].parent].startPos, h[n].startPos) <= 0
              /\ comparePoints(h[n].endPos, h[h[n].parent].endPos) <= 0
        /\ \A i, j \in 1..Len(h[n].children) :
              (/\ i < j
               /\ h[h[n].children[i]].isElement
               /\ h[h[n].children[j]].isElement)
                 => comparePoints(h[h[n].children[i]].endPos,
                                  h[h[n].children[j]].startPos) <= 0

\* C26: span well-formedness is preserved by position shifting: when the
\* spans are ordered and the edit's range has no node boundary strictly
\* inside it, the spans are ordered after updatePositions, and so after any
\* sequence of such calls
ShiftKeepsSpansOrdered ==
    [][(/\ IsShift(last')
        /\ SpansOrdered(heap, dom)
        /\ NoBoundaryInside(heap, dom, last'.delta))
          => SpansOrdered(heap', dom')]_vars

\* <a><b></b><c></c></a>: two sibling elements that touch
AdjacentText ==
    <<"<", "a", ">", "<", "b", ">", "<", "/", "b", ">",
      "<", "c", ">", "<", "/", "c", ">", "<", "/", "a", ">">>

BoundaryTexts == {LookupText, AdjacentText}

\* the session after a scan of one of the texts
InitBoundary ==
    \E t \in BoundaryTexts :
       \E r \in {build(<< >>, 1, DefaultBuilder(t))} :
          /\ value = t
          /\ savedValue = t
          /\ heap = r.heap
          /\ dom = r.root
          /\ savedDom = r.root
          /\ nextId = r.nextId
          /\ ops = 0
          /\ last = NoCall
          /\ browser = NoBrowser

SpecBoundary == InitBoundary /\ [][NextLookup]_vars

====
